---- MODULE Spec2Model ----
(***************************************************************************)
(* SugarHealthTracker: the tracking store (src/database.py), the insight   *)
(* aggregation and the trend views of the application (src/app.py) and the *)
(* Provider-A nutrient normalizer (src/nutrition_api.py).                  *)
(*                                                                         *)
(* Numbers.  The program computes in floating point; the model computes    *)
(* the same expressions exactly, in fixed point:                           *)
(*   - a per-100g sugar value is held in tenths of a gram (10.6 g = 106),  *)
(*   - a per-100g calorie value in kcal,                                   *)
(*   - value/100*portion_g is value*portion_g, one hundredth of the unit   *)
(*     of value per step: sugar of an entry and of an insight is in        *)
(*     milligrams (26.5 g = 26500), calories in hundredths of a kcal.      *)
(* The foods of FoodCatalog are chosen so that the floating-point results  *)
(* of the program are these exact values.                                  *)
(* A date string 'YYYY-MM-DD' is a day number; the order of the strings is *)
(* the order of the days.                                                  *)
(***************************************************************************)
EXTENDS Integers, Sequences, FiniteSets, TLC

VARIABLES
    food_items,      \* table food_items: set of rows
    daily_tracker,   \* table daily_tracker: set of rows
    favorite_foods,  \* table favorite_foods: set of rows
    sugar_insights,  \* table sugar_insights: set of rows
    today,           \* the day datetime.now() falls on
    backend,         \* the database behind DATABASE_URL
    serial,          \* last value of the id sequences (postgresql)
    last,            \* the last call: its name, arguments and result
    sessions         \* the save_daily_insight calls in progress, per session

vars == <<food_items, daily_tracker, favorite_foods, sugar_insights,
          today, backend, serial, last, sessions>>

----------------------------------------------------------------------------
(* Bounds of the model *)

MaxDay == 2
MaxTrackerRows == 2
MaxInsightRows == 2
MaxFavoriteRows == 2
MaxFoodRows == 3
MaxLimit == 2

Users == {1, 2}
DefaultUser == 1
Dates == 1..MaxDay
Backends == {"sqlite", "postgresql"}

(* The WHO limit of save_daily_insight, 25.0 g, in milligrams *)
WhoLimitMg == 25000
(* days= of the two trend views *)
WeeklyDays == 7
MonthlyDays == 30

(* fdc_id of a canonical record: an integer FDC id, a barcode string, or   *)
(* None (Provider A without fdcId).  <<type, text>>.                       *)
FdcInt(s) == <<"int", s>>
FdcStr(s) == <<"str", s>>
FdcNone == <<"none", "">>

(* Canonical records as the normalizers return them: sugar_g in tenths of  *)
(* a gram per 100 g, calories in kcal per 100 g                            *)
CocaCola ==
    [name |-> "Coca Cola", fdc_id |-> FdcInt("1001"), sugar_g |-> 106, calories |-> 42]
Apple ==
    [name |-> "Apple", fdc_id |-> FdcStr("5449"), sugar_g |-> 100, calories |-> 52]
AppleNoId ==
    [name |-> "Apple", fdc_id |-> FdcNone, sugar_g |-> 20, calories |-> 30]

FoodCatalog == {CocaCola, Apple, AppleNoId}

(* The foods and portions tracked: 10.6 g/100 g at 250 g is 26.5 g, over   *)
(* the limit alone; 10.0 g/100 g at 125 g is 12.5 g, and two of them are   *)
(* 25.0 g, the limit exactly.                                              *)
TrackInputs == {<<CocaCola, 250>>, <<Apple, 125>>}

----------------------------------------------------------------------------
(* Helpers *)

Max(S) == CHOOSE x \in S : \A y \in S : y <= x
Min2(a, b) == IF a <= b THEN a ELSE b

MaxId(table) == IF table = {} THEN 0 ELSE Max({r.id : r \in table})

RECURSIVE SumField(_, _)
SumField(rows, f) ==
    IF rows = {} THEN 0
    ELSE LET r == CHOOSE x \in rows : TRUE
         IN  r[f] + SumField(rows \ {r}, f)

(* Column(Integer, primary_key=True): the id a new row of a table gets.    *)
(* sqlite gives max(rowid)+1, postgresql the next value of the sequence.   *)
NewId(table, seq) == IF backend = "sqlite" THEN MaxId(table) + 1 ELSE seq + 1

(* Mutant of Scaled: the portion is not applied, the per-100g value stored *)
ScaledPer100g(value, portion_g) == value * 100

(* value / 100 * portion_g, in hundredths of the unit of value *)
Scaled(value, portion_g) == value * portion_g

(* str(food_data.get('fdc_id', '')) *)
str(fdc) == IF fdc[1] = "none" THEN "None" ELSE fdc[2]

(* FoodItem.external_id == :param, a String column against the bound value.*)
(* A None parameter renders IS NULL, and external_id is never NULL (it is  *)
(* always the str() of something).  An integer parameter is compared as    *)
(* text by sqlite (column affinity).                                       *)
ExternalIdEquals(stored, fdc) ==
    CASE fdc[1] = "none" -> FALSE
      [] OTHER           -> stored = fdc[2]

(* The record of a call in `last` *)
Call(op, user, date, arg, ret, out) ==
    [op |-> op, user |-> user, date |-> date, arg |-> arg, ret |-> ret, out |-> out]

NoArg == <<>>

----------------------------------------------------------------------------
(* save_food_item: the possible results, each the table afterwards and the *)
(* returned id (<<id>>, or <<>> for None).  Query.first() without ORDER BY *)
(* may return any matching row.  postgresql rejects the comparison of the  *)
(* varchar column with an integer parameter; the except branch returns     *)
(* None and nothing is stored.                                             *)
save_food_item_outcomes(foods, fd) ==
    IF fd.fdc_id[1] = "int" /\ backend = "postgresql"
    THEN {[foods |-> foods, id |-> <<>>]}
    ELSE LET found == {f \in foods : /\ f.name = fd.name
                                     /\ ExternalIdEquals(f.external_id, fd.fdc_id)}
             row == [id          |-> MaxId(foods) + 1,
                     name        |-> fd.name,
                     sugar_g     |-> fd.sugar_g,
                     calories    |-> fd.calories,
                     external_id |-> str(fd.fdc_id)]
         IN  IF found # {}
             THEN {[foods |-> foods, id |-> <<f.id>>] : f \in found}
             ELSE {[foods |-> foods \cup {row}, id |-> <<row.id>>]}

(* The DailyTracker row add_to_daily_tracker builds *)
TrackerEntry(id, fd, portion_g, user_id, food_id) ==
    [id           |-> id,
     user_id      |-> user_id,
     food_item_id |-> food_id,
     food_name    |-> fd.name,
     portion_g    |-> portion_g,
     sugar_g      |-> Scaled(fd.sugar_g, portion_g),
     calories     |-> Scaled(fd.calories, portion_g),
     date         |-> today]

(* An add that also rewrites the stored entries of the same food name     *)
(* with the values of the record given                                     *)
add_to_daily_tracker_refreshing(fd, portion_g, user_id) ==
    { [foods   |-> o.foods,
       tracker |-> {IF e.food_name = fd.name
                    THEN [e EXCEPT !.sugar_g  = Scaled(fd.sugar_g, e.portion_g),
                                   !.calories = Scaled(fd.calories, e.portion_g)]
                    ELSE e : e \in daily_tracker} \cup
                   {TrackerEntry(NewId(daily_tracker, serial.tracker), fd,
                                 portion_g, user_id, o.id)},
       serial  |-> IF backend = "sqlite" THEN serial
                   ELSE [serial EXCEPT !.tracker = @ + 1],
       ret     |-> TRUE] : o \in save_food_item_outcomes(food_items, fd) }

(* add_to_daily_tracker: the possible results *)
add_to_daily_tracker_outcomes(fd, portion_g, user_id) ==
    { [foods   |-> o.foods,
       tracker |-> daily_tracker \cup
                   {TrackerEntry(NewId(daily_tracker, serial.tracker), fd,
                                 portion_g, user_id, o.id)},
       serial  |-> IF backend = "sqlite" THEN serial
                   ELSE [serial EXCEPT !.tracker = @ + 1],
       ret     |-> TRUE] : o \in save_food_item_outcomes(food_items, fd) }

(* The rows of a date, whatever their user *)
EntriesOfDate(tracker, date, user_id) ==
    {e \in tracker : e.date = date}

(* The rows of (user_id, date): the filter of get_daily_tracker,           *)
(* clear_daily_tracker and save_daily_insight                              *)
EntriesOf(tracker, date, user_id) ==
    {e \in tracker : e.user_id = user_id /\ e.date = date}

InsightsOf(insights, date, user_id) ==
    {r \in insights : r.user_id = user_id /\ r.date = date}

(* Mutant of ExceededLimit: the limit itself counts as exceeded *)
ExceededLimitInclusive(total_sugar) == total_sugar >= WhoLimitMg

(* total_sugar > 25.0 *)
ExceededLimit(total_sugar) == total_sugar > WhoLimitMg

(* The values save_daily_insight computes from the entries *)
Totals(entries) ==
    [total_sugar_g  |-> SumField(entries, "sugar_g"),
     total_calories |-> SumField(entries, "calories"),
     food_count     |-> Cardinality(entries),
     exceeded_limit |-> ExceededLimit(SumField(entries, "sugar_g"))]

(* Mutant of UpdateInsight: the new totals are added to the stored ones *)
UpdateInsightAccumulating(row, t) ==
    [row EXCEPT !.total_sugar_g  = @ + t.total_sugar_g,
                !.total_calories = @ + t.total_calories,
                !.food_count     = @ + t.food_count,
                !.exceeded_limit = (row.total_sugar_g + t.total_sugar_g) > WhoLimitMg]

(* if existing: the four assignments to the row found *)
UpdateInsight(row, t) ==
    [row EXCEPT !.total_sugar_g  = t.total_sugar_g,
                !.total_calories = t.total_calories,
                !.food_count     = t.food_count,
                !.exceeded_limit = t.exceeded_limit]

(* else: the SugarInsight row created *)
NewInsight(insights, date, user_id, t) ==
    [id             |-> MaxId(insights) + 1,
     user_id        |-> user_id,
     date           |-> date,
     total_sugar_g  |-> t.total_sugar_g,
     total_calories |-> t.total_calories,
     food_count     |-> t.food_count,
     exceeded_limit |-> t.exceeded_limit]

(* Mutant of save_daily_insight_outcomes: no lookup of an existing row, the   *)
(* insight is always added                                                 *)
save_daily_insight_always_insert(insights, tracker, date, user_id) ==
    LET entries == EntriesOf(tracker, date, user_id)
    IN  IF entries = {}
        THEN {[insights |-> insights, ret |-> FALSE,
               existed |-> InsightsOf(insights, date, user_id) # {}]}
        ELSE {[insights |-> insights \cup
                            {NewInsight(insights, date, user_id, Totals(entries))},
               ret |-> TRUE, existed |-> InsightsOf(insights, date, user_id) # {}]}

(* Mutant of save_daily_insight_outcomes: no early return for a date without  *)
(* entries, the totals of the empty list are stored                        *)
save_daily_insight_no_early_return(insights, tracker, date, user_id) ==
    LET existing == InsightsOf(insights, date, user_id)
        t        == Totals(EntriesOf(tracker, date, user_id))
    IN  IF existing # {}
        THEN {[insights |-> (insights \ {r}) \cup {UpdateInsight(r, t)},
               ret |-> TRUE, existed |-> TRUE] : r \in existing}
        ELSE {[insights |-> insights \cup {NewInsight(insights, date, user_id, t)},
               ret |-> TRUE, existed |-> FALSE]}

(* save_daily_insight on given tables: the possible results, each the      *)
(* insight table afterwards, the return value and whether a row existed.   *)
save_daily_insight_outcomes(insights, tracker, date, user_id) ==
    LET entries  == EntriesOf(tracker, date, user_id)
        existing == InsightsOf(insights, date, user_id)
        t        == Totals(entries)
    IN  IF entries = {}
        THEN {[insights |-> insights, ret |-> FALSE, existed |-> existing # {}]}
        ELSE IF existing # {}
        THEN {[insights |-> (insights \ {r}) \cup {UpdateInsight(r, t)},
               ret |-> TRUE, existed |-> TRUE] : r \in existing}
        ELSE {[insights |-> insights \cup {NewInsight(insights, date, user_id, t)},
               ret |-> TRUE, existed |-> FALSE]}

(* The dict get_weekly_insights returns for a row *)
InsightDict(r) ==
    [date           |-> r.date,
     total_sugar_g  |-> r.total_sugar_g,
     total_calories |-> r.total_calories,
     food_count     |-> r.food_count,
     exceeded_limit |-> r.exceeded_limit]

(* Mutant of get_weekly_insights_outcomes: ordered by date ascending *)
get_weekly_insights_ascending(insights, user_id, days) ==
    LET rows   == {r \in insights : r.user_id = user_id}
        n      == Cardinality(rows)
        orders == {s \in [1..n -> rows] :
                      /\ \A i, j \in 1..n : i # j => s[i] # s[j]
                      /\ \A i, j \in 1..n : i < j => s[i].date <= s[j].date}
        k      == Min2(days, n)
    IN  {[i \in 1..k |-> InsightDict(s[i])] : s \in orders}

(* filter(user_id).order_by(date.desc()).limit(days).all(): every order of *)
(* the user's rows that is descending in date (rows of equal date in any   *)
(* order), cut to the first `days`.                                        *)
get_weekly_insights_outcomes(insights, user_id, days) ==
    LET rows   == {r \in insights : r.user_id = user_id}
        n      == Cardinality(rows)
        orders == {s \in [1..n -> rows] :
                      /\ \A i, j \in 1..n : i # j => s[i] # s[j]
                      /\ \A i, j \in 1..n : i < j => s[i].date >= s[j].date}
        k      == Min2(days, n)
    IN  {[i \in 1..k |-> InsightDict(s[i])] : s \in orders}

(* df['exceeded_limit'].sum() *)
DaysExceeded(data) == Cardinality({i \in 1..Len(data) : data[i].exceeded_limit})

(* A quotient a / b * 100 of the views, kept as the fraction (a*100) / b *)
Percent(a, b) == [num |-> a * 100, den |-> b]

(* compliance = ((7 - days_exceeded) / 7) * 100 of the weekly view *)
WeeklyCompliance(data) ==
    Percent(WeeklyDays - DaysExceeded(data), WeeklyDays)

(* compliance = ((total_days - days_exceeded) / total_days) * 100 of the   *)
(* monthly view, total_days = len(df)                                      *)
MonthlyCompliance(data) ==
    Percent(Len(data) - DaysExceeded(data), Len(data))

----------------------------------------------------------------------------
(* The database sessions (get_db_session) that can run save_daily_insight *)
(* at the same time, e.g. two browser sessions of the application          *)
Sessions == {"a", "b"}

(* A session that is not inside save_daily_insight *)
Idle ==
    [pc |-> "idle", user_id |-> 0, date |-> 0, totals |-> Totals({}),
     existing |-> {}]

NoSessions == [s \in Sessions |-> Idle]

(* The state after init_database(): empty tables *)
Init ==
    /\ food_items = {}
    /\ sessions = NoSessions
    /\ daily_tracker = {}
    /\ favorite_foods = {}
    /\ sugar_insights = {}
    /\ today = 1
    /\ backend \in Backends
    /\ serial = [tracker |-> 0, favorite |-> 0]
    /\ last = Call("init", 0, 0, NoArg, TRUE, <<>>)

(* datetime.now() passes midnight *)
Tick ==
    /\ today < MaxDay
    /\ today' = today + 1
    /\ last' = Call("tick", 0, 0, NoArg, TRUE, <<>>)
    /\ UNCHANGED <<sessions, food_items, daily_tracker, favorite_foods, sugar_insights,
                   backend, serial>>

(* add_to_daily_tracker(food_data, portion_g, user_id) *)
add_to_daily_tracker(fd, portion_g, user_id) ==
    \E o \in add_to_daily_tracker_outcomes(fd, portion_g, user_id) :
        /\ MaxId(o.tracker) <= MaxTrackerRows
        /\ Cardinality(o.foods) <= MaxFoodRows
        /\ food_items' = o.foods
        /\ daily_tracker' = o.tracker
        /\ serial' = o.serial
        /\ last' = Call("add_to_daily_tracker", user_id, today,
                        [food |-> fd, portion_g |-> portion_g], o.ret, <<>>)
        /\ UNCHANGED <<sessions, favorite_foods, sugar_insights, today, backend>>

(* remove_from_daily_tracker(entry_id) *)
remove_from_daily_tracker(entry_id) ==
    LET found == {e \in daily_tracker : e.id = entry_id}
    IN  /\ daily_tracker' = daily_tracker \ found
        /\ last' = Call("remove_from_daily_tracker", 0, 0, entry_id,
                        found # {}, <<>>)
        /\ UNCHANGED <<sessions, food_items, favorite_foods, sugar_insights, today,
                       backend, serial>>

(* clear_daily_tracker(date, user_id) *)
clear_daily_tracker(date, user_id) ==
    /\ daily_tracker' = daily_tracker \ EntriesOf(daily_tracker, date, user_id)
    /\ last' = Call("clear_daily_tracker", user_id, date, NoArg, TRUE, <<>>)
    /\ UNCHANGED <<sessions, food_items, favorite_foods, sugar_insights, today,
                   backend, serial>>

(* save_daily_insight(date, user_id) *)
save_daily_insight(date, user_id) ==
    \E o \in save_daily_insight_outcomes(sugar_insights, daily_tracker, date, user_id) :
        /\ Cardinality(o.insights) <= MaxInsightRows
        /\ sugar_insights' = o.insights
        /\ last' = Call("save_daily_insight", user_id, date,
                        [existed |-> o.existed], o.ret, <<>>)
        /\ UNCHANGED <<sessions, food_items, daily_tracker, favorite_foods, today,
                       backend, serial>>

(* get_weekly_insights(user_id, days) *)
get_weekly_insights(user_id, days) ==
    \E data \in get_weekly_insights_outcomes(sugar_insights, user_id, days) :
        /\ last' = Call("get_weekly_insights", user_id, 0, days, TRUE, data)
        /\ UNCHANGED <<sessions, food_items, daily_tracker, favorite_foods, sugar_insights,
                       today, backend, serial>>

(* The Track button of a search result: add_to_daily_tracker(food_item,    *)
(* portion_size) and, when it returned true, save_daily_insight(), both    *)
(* for the default user and today.                                         *)
TrackButton(fd, portion_g) ==
    \E a \in add_to_daily_tracker_outcomes(fd, portion_g, DefaultUser) :
    \E o \in save_daily_insight_outcomes(sugar_insights, a.tracker, today, DefaultUser) :
        /\ MaxId(a.tracker) <= MaxTrackerRows
        /\ Cardinality(a.foods) <= MaxFoodRows
        /\ food_items' = a.foods
        /\ daily_tracker' = a.tracker
        /\ serial' = a.serial
        /\ Cardinality(o.insights) <= MaxInsightRows
        /\ sugar_insights' = o.insights
        /\ last' = Call("track_button", DefaultUser, today,
                        [food |-> fd, portion_g |-> portion_g], a.ret, <<>>)
        /\ UNCHANGED <<sessions, favorite_foods, today, backend>>

(* Weekly Sugar Trends of the tracker tab: the statistics shown when       *)
(* get_weekly_insights(days=7) returns rows                                *)
WeeklyTrendsView ==
    \E data \in get_weekly_insights_outcomes(sugar_insights, DefaultUser, WeeklyDays) :
        /\ Len(data) > 0
        /\ last' = Call("weekly_trends", DefaultUser, 0, WeeklyDays, TRUE,
                        [rows          |-> Len(data),
                         days_exceeded |-> DaysExceeded(data),
                         compliance    |-> WeeklyCompliance(data)])
        /\ UNCHANGED <<sessions, food_items, daily_tracker, favorite_foods, sugar_insights,
                       today, backend, serial>>

(* Monthly Trends of the insights tab: the statistics shown when           *)
(* get_weekly_insights(days=30) returns rows                               *)
MonthlyTrendsView ==
    \E data \in get_weekly_insights_outcomes(sugar_insights, DefaultUser, MonthlyDays) :
        /\ Len(data) > 0
        /\ last' = Call("monthly_trends", DefaultUser, 0, MonthlyDays, TRUE,
                        [rows          |-> Len(data),
                         days_exceeded |-> DaysExceeded(data),
                         compliance    |-> MonthlyCompliance(data)])
        /\ UNCHANGED <<sessions, food_items, daily_tracker, favorite_foods, sugar_insights,
                       today, backend, serial>>

(* The FavoriteFood row add_to_favorites builds; food_data is the dict    *)
(* json.dumps serializes                                                   *)
FavoriteRow(id, fd, user_id, food_id) ==
    [id           |-> id,
     user_id      |-> user_id,
     food_item_id |-> food_id,
     food_name    |-> fd.name,
     sugar_g      |-> fd.sugar_g,
     calories     |-> fd.calories,
     food_data    |-> fd]

(* Mutant of ExistingFavorites: the lookup compares the whole record *)
ExistingFavoritesByRecord(favorites, fd, user_id) ==
    {f \in favorites : f.user_id = user_id /\ f.food_data = fd}

(* The favorites add_to_favorites looks for before it adds *)
ExistingFavorites(favorites, fd, user_id) ==
    {f \in favorites : f.user_id = user_id /\ f.food_name = fd.name}

(* add_to_favorites: the possible results *)
add_to_favorites_outcomes(fd, user_id) ==
    IF ExistingFavorites(favorite_foods, fd, user_id) # {}
    THEN {[foods |-> food_items, favorites |-> favorite_foods,
           serial |-> serial, ret |-> FALSE]}
    ELSE { [foods     |-> o.foods,
            favorites |-> favorite_foods \cup
                          {FavoriteRow(NewId(favorite_foods, serial.favorite),
                                       fd, user_id, o.id)},
            serial    |-> IF backend = "sqlite" THEN serial
                          ELSE [serial EXCEPT !.favorite = @ + 1],
            ret       |-> TRUE] : o \in save_food_item_outcomes(food_items, fd) }

(* add_to_favorites(food_data, user_id) *)
add_to_favorites(fd, user_id) ==
    \E o \in add_to_favorites_outcomes(fd, user_id) :
        /\ MaxId(o.favorites) <= MaxFavoriteRows
        /\ Cardinality(o.foods) <= MaxFoodRows
        /\ food_items' = o.foods
        /\ favorite_foods' = o.favorites
        /\ serial' = o.serial
        /\ last' = Call("add_to_favorites", user_id, 0, fd, o.ret, <<>>)
        /\ UNCHANGED <<sessions, daily_tracker, sugar_insights, today, backend>>

(* remove_from_favorites(favorite_id) *)
remove_from_favorites(favorite_id) ==
    LET found == {f \in favorite_foods : f.id = favorite_id}
    IN  /\ favorite_foods' = favorite_foods \ found
        /\ last' = Call("remove_from_favorites", 0, 0, favorite_id,
                        found # {}, <<>>)
        /\ UNCHANGED <<sessions, food_items, daily_tracker, sugar_insights, today,
                       backend, serial>>

(* clear_favorites(user_id) *)
clear_favorites(user_id) ==
    /\ favorite_foods' = {f \in favorite_foods : f.user_id # user_id}
    /\ last' = Call("clear_favorites", user_id, 0, NoArg, TRUE, <<>>)
    /\ UNCHANGED <<sessions, food_items, daily_tracker, sugar_insights, today,
                   backend, serial>>

Next ==
    \/ Tick
    \/ \E x \in TrackInputs, u \in Users : add_to_daily_tracker(x[1], x[2], u)
    \/ \E id \in 1..MaxTrackerRows : remove_from_daily_tracker(id)
    \/ \E d \in Dates, u \in Users : clear_daily_tracker(d, u)
    \/ \E d \in Dates, u \in Users : save_daily_insight(d, u)
    \/ \E u \in Users, n \in 0..MaxLimit : get_weekly_insights(u, n)
    \/ \E x \in TrackInputs : TrackButton(x[1], x[2])
    \/ WeeklyTrendsView
    \/ MonthlyTrendsView

(* The tracking store: tracker and insights, for any user and date *)
Spec == Init /\ [][Next]_vars

(* The favorites of any user, with the tracker and the insights of one day *)
NextFav ==
    \/ \E fd \in FoodCatalog, u \in Users : add_to_favorites(fd, u)
    \/ \E id \in 1..MaxFavoriteRows : remove_from_favorites(id)
    \/ \E u \in Users : clear_favorites(u)
    \/ \E x \in TrackInputs : TrackButton(x[1], x[2])
    \/ \E d \in Dates, u \in Users : clear_daily_tracker(d, u)
    \/ \E d \in Dates, u \in Users : save_daily_insight(d, u)

SpecFav == Init /\ [][NextFav]_vars

(* The remove button of a listed entry of the tracker tab: the list is     *)
(* get_daily_tracker(date_str) of the default user; the handler calls      *)
(* remove_from_daily_tracker(item['id']) and reruns the script             *)
RemoveButton(selected_date, entry_id) ==
    LET found == {e \in daily_tracker : e.id = entry_id}
    IN  /\ entry_id \in {e.id : e \in EntriesOf(daily_tracker, selected_date, DefaultUser)}
        /\ daily_tracker' = daily_tracker \ found
        /\ last' = Call("remove_button", DefaultUser, selected_date, entry_id,
                        found # {}, <<>>)
        /\ UNCHANGED <<sessions, food_items, favorite_foods, sugar_insights, today,
                       backend, serial>>

(* The Clear All button of the tracker tab, shown when the selected date   *)
(* has entries: clear_daily_tracker(date_str) and a rerun                  *)
ClearAllButton(selected_date) ==
    /\ EntriesOf(daily_tracker, selected_date, DefaultUser) # {}
    /\ daily_tracker' = daily_tracker \ EntriesOf(daily_tracker, selected_date, DefaultUser)
    /\ last' = Call("clear_all_button", DefaultUser, selected_date, NoArg, TRUE, <<>>)
    /\ UNCHANGED <<sessions, food_items, favorite_foods, sugar_insights, today,
                   backend, serial>>

(* The buttons of the application that change the tracker *)
NextApp ==
    \/ Tick
    \/ \E in \in TrackInputs : TrackButton(in[1], in[2])
    \/ \E d \in Dates, id \in 1..MaxTrackerRows : RemoveButton(d, id)
    \/ \E d \in Dates : ClearAllButton(d)

SpecApp == Init /\ [][NextApp]_vars

(* save_daily_insight in a session of its own, step by step.              *)
(* ReadEntries: the query of the entries, the early return when there are  *)
(* none, and the totals computed from the rows read                        *)
ReadEntries(s, date, user_id) ==
    LET entries == EntriesOf(daily_tracker, date, user_id)
    IN  /\ sessions[s].pc = "idle"
        /\ sessions' = [sessions EXCEPT ![s] =
              IF entries = {} THEN Idle
              ELSE [pc |-> "read_existing", user_id |-> user_id, date |-> date,
                    totals |-> Totals(entries), existing |-> {}]]
        /\ last' = IF entries = {}
                   THEN Call("save_daily_insight", user_id, date,
                             [existed |-> FALSE], FALSE, <<>>)
                   ELSE last
        /\ UNCHANGED <<food_items, daily_tracker, favorite_foods, sugar_insights,
                       today, backend, serial>>

(* ReadExisting: the query .first() of the insight of (user_id, date) *)
ReadExisting(s) ==
    LET found == InsightsOf(sugar_insights, sessions[s].date, sessions[s].user_id)
    IN  /\ sessions[s].pc = "read_existing"
        /\ \E existing \in (IF found = {} THEN {{}} ELSE {{r} : r \in found}) :
              sessions' = [sessions EXCEPT ![s].pc = "commit",
                                           ![s].existing = existing]
        /\ UNCHANGED <<food_items, daily_tracker, favorite_foods, sugar_insights,
                       today, backend, serial, last>>

(* CommitInsight: db.commit() writes the update of the row read, or the    *)
(* insert of a new row when none was read                                  *)
CommitInsight(s) ==
    LET me == sessions[s]
    IN  /\ me.pc = "commit"
        /\ sugar_insights' =
              IF me.existing = {}
              THEN sugar_insights \cup
                     {NewInsight(sugar_insights, me.date, me.user_id, me.totals)}
              ELSE {IF r.id \in {x.id : x \in me.existing}
                    THEN UpdateInsight(r, me.totals) ELSE r : r \in sugar_insights}
        /\ Cardinality(sugar_insights') <= MaxInsightRows
        /\ sessions' = [sessions EXCEPT ![s] = Idle]
        /\ last' = Call("save_daily_insight", me.user_id, me.date,
                        [existed |-> me.existing # {}], TRUE, <<>>)
        /\ UNCHANGED <<food_items, daily_tracker, favorite_foods, today,
                       backend, serial>>

(* Tracker additions and save_daily_insight calls of two sessions,         *)
(* interleaved at their reads and commits                                  *)
NextSessions ==
    \/ Tick
    \/ \E in \in TrackInputs, u \in Users : add_to_daily_tracker(in[1], in[2], u)
    \/ \E s \in Sessions, u \in Users : ReadEntries(s, today, u)
    \/ \E s \in Sessions : ReadExisting(s)
    \/ \E s \in Sessions : CommitInsight(s)

SpecSessions == Init /\ [][NextSessions]_vars

(* The record of Apple as a later search returns it: same name and id,     *)
(* another sugar value                                                     *)
AppleChanged == [Apple EXCEPT !.sugar_g = 120]

(* The store with a food whose record changes, two users and one user's    *)
(* favorite                                                                *)
NextStore ==
    \/ Tick
    \/ \E fd \in {Apple, AppleChanged}, u \in Users : add_to_daily_tracker(fd, 125, u)
    \/ \E id \in 1..MaxTrackerRows : remove_from_daily_tracker(id)
    \/ \E d \in Dates, u \in Users : clear_daily_tracker(d, u)
    \/ \E u \in Users : save_daily_insight(today, u)
    \/ add_to_favorites(Apple, DefaultUser)
    \/ clear_favorites(DefaultUser)

SpecStore == Init /\ [][NextStore]_vars

----------------------------------------------------------------------------
(* The Provider-A normalizer, NutritionAPI._extract_nutrition_data.        *)
(* A JSON member is <<"absent">>, <<"null">> or <<"value", v>>; a Python   *)
(* value is <<"null">> (None) or <<"value", v>>.                           *)

Absent == <<"absent">>
JsonNull == <<"null">>
Val(v) == <<"value", v>>

MaxNutrients == 2

(* dict.get(key, default) *)
Get(member, default) == IF member = Absent THEN default ELSE member

(* The nutrient ids the normalizer maps *)
SugarId == 2000
EnergyId == 1008
CarbsId == 1005
ProteinId == 1003
FatId == 1004
FiberId == 1079
SodiumId == 1093
NutrientFields ==
    {"sugar_g", "calories", "carbs_g", "protein_g", "fat_g", "fiber_g", "sodium_mg"}

(* The words the name matching looks for that the lower-cased name contains *)
Keywords(name) ==
    CASE name = "Total Sugars"         -> {"sugar", "total"}
      [] name = "Energy"               -> {"energy"}
      [] name = "Total Carbohydrate"   -> {"carbohydrate", "total"}
      [] name = "Protein"              -> {"protein"}
      [] name = "Total lipid (fat)"    -> {"fat", "total", "lipid"}
      [] name = "Fiber, total dietary" -> {"fiber", "total"}
      [] name = "Sodium, Na"           -> {"sodium"}
      [] OTHER                         -> {}

(* The if/elif chain on nutrient_id: the field an id is mapped to *)
FieldOfId(id) ==
    CASE id = Val(SugarId)   -> "sugar_g"
      [] id = Val(EnergyId)  -> "calories"
      [] id = Val(CarbsId)   -> "carbs_g"
      [] id = Val(ProteinId) -> "protein_g"
      [] id = Val(FatId)     -> "fat_g"
      [] id = Val(FiberId)   -> "fiber_g"
      [] id = Val(SodiumId)  -> "sodium_mg"
      [] OTHER               -> "none"

(* The elif chain on nutrient_name, in its order *)
FieldOfName(name) ==
    LET kw == Keywords(name)
    IN  IF "sugar" \in kw /\ "total" \in kw THEN "sugar_g"
        ELSE IF "energy" \in kw \/ "calorie" \in kw THEN "calories"
        ELSE IF "carbohydrate" \in kw /\ "total" \in kw THEN "carbs_g"
        ELSE IF "protein" \in kw THEN "protein_g"
        ELSE IF "fat" \in kw /\ ("total" \in kw \/ "lipid" \in kw) THEN "fat_g"
        ELSE IF "fiber" \in kw THEN "fiber_g"
        ELSE IF "sodium" \in kw THEN "sodium_mg"
        ELSE "none"

(* One pass of the loop body over a nutrient whose name is a string *)
ProcessNutrient(info, nutrient) ==
    LET nutrient_id   == Get(nutrient.nutrientId, JsonNull)
        nutrient_name == Get(nutrient.nutrientName, Val(""))[2]
        amount        == Get(nutrient.value, Val(0))
        by_id         == FieldOfId(nutrient_id)
        by_name       == FieldOfName(nutrient_name)
    IN  IF by_id # "none" THEN [info EXCEPT ![by_id] = amount]
        ELSE IF by_name # "none"
        THEN IF info[by_name] = Val(0)
             THEN [info EXCEPT ![by_name] = amount]
             ELSE info
        ELSE info

RECURSIVE ExtractLoop(_, _)
ExtractLoop(info, nutrients) ==
    IF nutrients = <<>> THEN info
    ELSE ExtractLoop(ProcessNutrient(info, Head(nutrients)), Tail(nutrients))

(* _extract_nutrition_data(food_data): the dict returned, ok = FALSE for   *)
(* the None of the except branch: None.lower() raises for a nutrient whose *)
(* nutrientName is null.                                                   *)
extract_nutrition_data(food_data) ==
    LET nutrients == food_data.foodNutrients
    IN  IF \E i \in 1..Len(nutrients) : nutrients[i].nutrientName = JsonNull
        THEN [ok |-> FALSE]
        ELSE [ok   |-> TRUE,
              name |-> Get(food_data.description, Val("Unknown Food")),
              info |-> ExtractLoop([f \in NutrientFields |-> Val(0)], nutrients)]

(* The nutrient entries of the payloads examined; 1063 is a nutrient id    *)
(* the normalizer does not map                                             *)
NutrientEntries ==
    [nutrientId   : {Val(SugarId), Val(EnergyId), Val(CarbsId), Val(ProteinId),
                     Val(FatId), Val(FiberId), Val(SodiumId), Val(1063)},
     nutrientName : {Val("Total Sugars"), Val("Energy"), Val("Total Carbohydrate"),
                     Val("Protein"), Val("Total lipid (fat)"),
                     Val("Fiber, total dietary"), Val("Sodium, Na"), Val("Water"),
                     JsonNull},
     value        : {Val(0), Val(5), Val(8), Val(-3), JsonNull}]

NutrientLists ==
    UNION {[1..n -> NutrientEntries] : n \in 0..MaxNutrients}

ProviderAPayloads ==
    [description : {Val("Coca Cola")}, foodNutrients : NutrientLists]
        \cup [description   : {Absent, JsonNull},
              foodNutrients : {l \in NutrientLists : Len(l) <= 1}]

(* A Provider-A payload has arrived *)
InitNorm ==
    /\ food_items = {}
    /\ sessions = NoSessions
    /\ daily_tracker = {}
    /\ favorite_foods = {}
    /\ sugar_insights = {}
    /\ today = 1
    /\ backend = "sqlite"
    /\ serial = [tracker |-> 0, favorite |-> 0]
    /\ last \in {Call("provider_a_payload", 0, 0, fd, TRUE, <<>>) :
                    fd \in ProviderAPayloads}

(* nutrition_info = self._extract_nutrition_data(food) *)
Normalize ==
    /\ last.op = "provider_a_payload"
    /\ last' = Call("extract_nutrition_data", 0, 0, last.arg, TRUE,
                    extract_nutrition_data(last.arg))
    /\ UNCHANGED <<sessions, food_items, daily_tracker, favorite_foods, sugar_insights,
                   today, backend, serial>>

SpecNorm == InitNorm /\ [][Normalize]_vars

----------------------------------------------------------------------------
(* The Provider-B normalizer, NutritionAPI._extract_openfoodfacts_data.    *)
(* Nutriment values are in hundredths (of g, of kcal), so sodium 0.4 g is  *)
(* 40 and the sodium_mg of a record is in hundredths of mg.                *)

NutrimentKeys ==
    {"sugars_100g", "energy-kcal_100g", "carbohydrates_100g", "proteins_100g",
     "fat_100g", "fiber_100g", "sodium_100g"}

(* x or 0: None and 0 are falsy *)
OrZero(x) == IF x = JsonNull \/ x = Val(0) THEN Val(0) ELSE x

(* bool(x) of a string or None *)
Truthy(x) == x # JsonNull /\ x # Val("") /\ x # Absent

(* (... or 0) * 1000 without the conversion *)
SodiumUnscaled(x) == OrZero(x)

(* (nutriments.get("sodium_100g", 0) or 0) * 1000 *)
SodiumToMg(x) == Val(OrZero(x)[2] * 1000)

(* The f-string of the description: brands, " - ", first category *)
BrandDescription(product) ==
    LET brands     == product.brands
        categories == Get(product.categories, JsonNull)
    IN  Val(<<brands[2], " - ",
              IF Truthy(categories) THEN Head(categories[2]) ELSE "">>)

(* _extract_openfoodfacts_data(product_data): the dict returned, ok =      *)
(* FALSE for the None of the except branch: product_data or its nutriments *)
(* is null and .get raises. product_data is <<"null">> or <<"value", p>>.  *)
extract_openfoodfacts_data(product_data) ==
    IF product_data[1] = "null" THEN [ok |-> FALSE]
    ELSE
    LET product    == product_data[2]
        nutriments == Get(product.nutriments, Val([k \in NutrimentKeys |-> Absent]))
        n(key)     == OrZero(Get(nutriments[2][key], Val(0)))
    IN  IF nutriments[1] = "null" THEN [ok |-> FALSE]
        ELSE [ok   |-> TRUE,
              name |-> Get(product.product_name, Val("Unknown Product")),
              description |->
                  IF Truthy(Get(product.brands, JsonNull))
                  THEN BrandDescription(product)
                  ELSE Get(product.brands, Val("")),
              fdc_id |-> Get(product.code, Val("")),
              info |-> [sugar_g   |-> n("sugars_100g"),
                        calories  |-> n("energy-kcal_100g"),
                        carbs_g   |-> n("carbohydrates_100g"),
                        protein_g |-> n("proteins_100g"),
                        fat_g     |-> n("fat_100g"),
                        fiber_g   |-> n("fiber_100g"),
                        sodium_mg |-> SodiumToMg(Get(nutriments[2]["sodium_100g"], Val(0)))]]

(* The nutriments of the products examined: every key absent, null or      *)
(* 0.40; sugars and sodium also 0 and -0.40                                *)
NutrimentDicts ==
    {d \in [NutrimentKeys -> {Absent, JsonNull, Val(0), Val(40), Val(-40)}] :
        \A k \in NutrimentKeys \ {"sugars_100g", "sodium_100g"} :
            d[k] \in {Absent, JsonNull, Val(40)}}

ProviderBProducts ==
    [product_name : {Val("Coca-Cola Classic"), Absent, JsonNull},
     brands       : {Val("Coca-Cola"), Absent},
     categories   : {Val(<<"Sodas", "Beverages">>), Absent},
     code         : {Val("5449000000996")},
     nutriments   : {Val(d) : d \in NutrimentDicts}]
        \cup [product_name : {Val("Coca-Cola Classic"), Absent, JsonNull},
              brands       : {Val("Coca-Cola"), Absent},
              categories   : {Val(<<"Sodas", "Beverages">>), Absent},
              code         : {Val("5449000000996")},
              nutriments   : {Absent, JsonNull}]

(* A Provider-B product has arrived *)
InitOff ==
    /\ food_items = {}
    /\ sessions = NoSessions
    /\ daily_tracker = {}
    /\ favorite_foods = {}
    /\ sugar_insights = {}
    /\ today = 1
    /\ backend = "sqlite"
    /\ serial = [tracker |-> 0, favorite |-> 0]
    /\ last \in {Call("provider_b_payload", 0, 0, pd, TRUE, <<>>) :
                    pd \in {Val(p) : p \in ProviderBProducts} \cup {JsonNull}}

(* nutrition_info = self._extract_openfoodfacts_data(product) *)
NormalizeOff ==
    /\ last.op = "provider_b_payload"
    /\ last' = Call("extract_openfoodfacts_data", 0, 0, last.arg, TRUE,
                    extract_openfoodfacts_data(last.arg))
    /\ UNCHANGED <<sessions, food_items, daily_tracker, favorite_foods, sugar_insights,
                   today, backend, serial>>

SpecOff == InitOff /\ [][NormalizeOff]_vars

(* Both normalizers, each on the payloads of its provider *)
SpecNormalizers ==
    (InitNorm \/ InitOff) /\ [][Normalize \/ NormalizeOff]_vars

----------------------------------------------------------------------------
(* The provider client: NutritionAPI.search_food_by_name and               *)
(* search_food_by_barcode. A call is given what requests.get does: it      *)
(* returns a response (kind "response") or raises (the other kinds). The   *)
(* result is the list returned and the messages passed to st.error.        *)

MaxFoods == 4

(* foods[:3] *)
TopResults == 3

StatusCodes == {200, 403, 404, 500}
RequestOutcomes == {"response", "Timeout", "ConnectionError", "Exception"}

Response(kind, status_code, json) ==
    [kind |-> kind, status_code |-> status_code, json |-> json]

Result(records, errors) == [records |-> records, errors |-> errors]

(* A message passed to st.error: its text and the status code it quotes    *)
(* (0 when it quotes none)                                                 *)
Message(text, status_code) == <<text, status_code>>

(* self._extract_nutrition_data(food) for a food that is an object or null *)
extract_food(food) ==
    IF food[1] = "null" THEN [ok |-> FALSE] ELSE extract_nutrition_data(food[2])

(* The loop over foods[:3] stopped by the first failure *)
RECURSIVE ProcessFoodsAborting(_)
ProcessFoodsAborting(foods) ==
    IF foods = <<>> THEN Result(<<>>, <<>>)
    ELSE LET nutrition_info == extract_food(Head(foods))
             rest == ProcessFoodsAborting(Tail(foods))
         IN  IF nutrition_info.ok
             THEN Result(<<nutrition_info>> \o rest.records, rest.errors)
             ELSE Result(<<>>, <<Message("Error processing nutrition data", 0)>>)

(* for food in foods: nutrition_info = ...; if nutrition_info: append *)
RECURSIVE ProcessFoods(_)
ProcessFoods(foods) ==
    IF foods = <<>> THEN Result(<<>>, <<>>)
    ELSE LET nutrition_info == extract_food(Head(foods))
             rest == ProcessFoods(Tail(foods))
         IN  IF nutrition_info.ok
             THEN Result(<<nutrition_info>> \o rest.records, rest.errors)
             ELSE Result(rest.records,
                         <<Message("Error processing nutrition data", 0)>> \o rest.errors)

(* One message for whatever requests.get raises *)
NameSearchErrorGeneric(response) ==
    IF response.kind = "response"
    THEN IF response.status_code = 403
         THEN Message("API access denied. Please check your API key configuration.", 0)
         ELSE Message("API request failed with status code", response.status_code)
    ELSE Message("An unexpected error occurred", 0)

(* The st.error message of the elif/else and except branches *)
NameSearchError(response) ==
    CASE response.kind = "response" /\ response.status_code = 403 ->
            Message("API access denied. Please check your API key configuration.", 0)
      [] response.kind = "response" /\ response.status_code # 403 ->
            Message("API request failed with status code", response.status_code)
      [] response.kind = "Timeout" ->
            Message("Request timed out. Please try again.", 0)
      [] response.kind = "ConnectionError" ->
            Message("Unable to connect to the nutrition database. Please check your internet connection.", 0)
      [] OTHER -> Message("An unexpected error occurred", 0)

(* search_food_by_name(food_name) *)
search_food_by_name_result(response) ==
    IF response.kind = "response" /\ response.status_code = 200
    THEN LET foods == Get(response.json[2].foods, Val(<<>>))
         IN  IF foods = JsonNull \/ foods = Val(<<>>) THEN Result(<<>>, <<>>)
             ELSE ProcessFoods(SubSeq(foods[2], 1, Min2(TopResults, Len(foods[2]))))
    ELSE Result(<<>>, <<NameSearchError(response)>>)

(* The st.error message of the else and except branches *)
BarcodeSearchError(response) ==
    CASE response.kind = "response" ->
            Message("Failed to fetch barcode data. Status code", response.status_code)
      [] response.kind = "Timeout" ->
            Message("Request timed out while searching barcode. Please try again.", 0)
      [] response.kind = "ConnectionError" ->
            Message("Unable to connect to barcode database. Please check your internet connection.", 0)
      [] OTHER -> Message("An error occurred while searching barcode", 0)

(* A not-found branch that reports to st.error *)
BarcodeNotFoundReported(data) ==
    Result(<<>>, <<Message("Product not found", 0)>>)

(* else: return [] (product not found in OpenFoodFacts) *)
BarcodeNotFound(data) == Result(<<>>, <<>>)

(* search_food_by_barcode(barcode) *)
search_food_by_barcode_result(response) ==
    IF response.kind = "response" /\ response.status_code = 200
    THEN LET data == response.json[2]
         IN  IF Get(data.status, JsonNull) = Val(1) /\ data.product # Absent
             THEN LET nutrition_info == extract_openfoodfacts_data(data.product)
                  IN  IF nutrition_info.ok
                      THEN Result(<<nutrition_info>>, <<>>)
                      ELSE Result(<<>>, <<Message("Error processing OpenFoodFacts data", 0)>>)
             ELSE BarcodeNotFound(data)
    ELSE Result(<<>>, <<BarcodeSearchError(response)>>)

(* The raw foods of the responses examined: two that normalize, one with   *)
(* a null nutrient name and a null item, which do not                      *)
FoodCola ==
    Val([description   |-> Val("Coca Cola"),
         foodNutrients |-> <<[nutrientId   |-> Val(SugarId),
                              nutrientName |-> Val("Total Sugars"),
                              value        |-> Val(5)]>>])
FoodApple ==
    Val([description |-> Val("Apple"), foodNutrients |-> <<>>])
FoodNullNutrientName ==
    Val([description   |-> Val("Cola Zero"),
         foodNutrients |-> <<[nutrientId   |-> Val(1063),
                              nutrientName |-> JsonNull,
                              value        |-> Val(0)]>>])
RawFoods == {FoodCola, FoodApple, FoodNullNutrientName, JsonNull}

(* Every list of up to two raw foods, and the longer ones without the food *)
(* of the null nutrient name                                               *)
FoodLists ==
    UNION {[1..n -> RawFoods] : n \in 0..Min2(2, MaxFoods)}
        \cup UNION {[1..n -> RawFoods \ {FoodNullNutrientName}] : n \in 0..MaxFoods}

NameResponses ==
    {Response("response", 200, Val([foods |-> f])) :
        f \in {Absent, JsonNull} \cup {Val(l) : l \in FoodLists}}
    \cup {Response("response", c, JsonNull) : c \in StatusCodes \ {200}}
    \cup {Response(k, 0, JsonNull) : k \in RequestOutcomes \ {"response"}}

ProductCola ==
    [product_name |-> Val("Coca-Cola Classic"),
     brands       |-> Val("Coca-Cola"),
     categories   |-> Val(<<"Sodas", "Beverages">>),
     code         |-> Val("5449000000996"),
     nutriments   |-> Val([k \in NutrimentKeys |->
                             IF k = "sugars_100g" THEN Val(1060) ELSE Absent])]
ProductNullNutriments == [ProductCola EXCEPT !.nutriments = JsonNull]

BarcodeResponses ==
    {Response("response", 200, Val([status |-> st, product |-> pr])) :
        st \in {Absent, Val(0), Val(1)},
        pr \in {Absent, JsonNull, Val(ProductCola), Val(ProductNullNutriments)}}
    \cup {Response("response", c, JsonNull) : c \in StatusCodes \ {200}}
    \cup {Response(k, 0, JsonNull) : k \in RequestOutcomes \ {"response"}}

(* results = nutrition_api.search_food_by_name(food_name.strip()) *)
search_food_by_name(response) ==
    /\ last' = Call("search_food_by_name", DefaultUser, today, response, TRUE,
                    search_food_by_name_result(response))
    /\ UNCHANGED <<sessions, food_items, daily_tracker, favorite_foods, sugar_insights,
                   today, backend, serial>>

(* results = nutrition_api.search_food_by_barcode(barcode.strip()) *)
search_food_by_barcode(response) ==
    /\ last' = Call("search_food_by_barcode", DefaultUser, today, response, TRUE,
                    search_food_by_barcode_result(response))
    /\ UNCHANGED <<sessions, food_items, daily_tracker, favorite_foods, sugar_insights,
                   today, backend, serial>>

(* Searching and tracking *)
NextSearch ==
    \/ \E response \in NameResponses : search_food_by_name(response)
    \/ \E response \in BarcodeResponses : search_food_by_barcode(response)
    \/ TrackButton(CocaCola, 250)

SpecSearch == Init /\ [][NextSearch]_vars

(* st.session_state.search_results and st.session_state.error_message;    *)
(* None is JsonNull                                                        *)
SessionState(search_results, error_message) ==
    [search_results |-> search_results, error_message |-> error_message]

(* A handler that stores the empty list of a search without results        *)
search_button_handler_storing_results(search_method, text, results, raised) ==
    IF search_method = "Food Name Search" /\ text # ""
    THEN IF raised
         THEN SessionState(JsonNull, Val("An error occurred while searching: "))
         ELSE IF results # <<>>
              THEN SessionState(Val(results), JsonNull)
              ELSE SessionState(Val(results), Val("No results found for "))
    ELSE IF search_method = "Barcode Scanner" /\ text # ""
    THEN IF raised
         THEN SessionState(JsonNull, Val("An error occurred while searching: "))
         ELSE IF results # <<>>
              THEN SessionState(Val(results), JsonNull)
              ELSE SessionState(Val(results), Val("No product found for barcode "))
    ELSE SessionState(JsonNull, Val("Please enter a food name or barcode to search."))

(* The body of `if search_button:`: text is the food name or the barcode   *)
(* typed, results the list the provider client returns, raised whether the *)
(* call raised instead of returning. Every branch assigns both fields.     *)
search_button_handler(search_method, text, results, raised) ==
    IF search_method = "Food Name Search" /\ text # ""
    THEN IF raised
         THEN SessionState(JsonNull, Val("An error occurred while searching: "))
         ELSE IF results # <<>>
              THEN SessionState(Val(results), JsonNull)
              ELSE SessionState(JsonNull, Val("No results found for "))
    ELSE IF search_method = "Barcode Scanner" /\ text # ""
    THEN IF raised
         THEN SessionState(JsonNull, Val("An error occurred while searching: "))
         ELSE IF results # <<>>
              THEN SessionState(Val(results), JsonNull)
              ELSE SessionState(JsonNull, Val("No product found for barcode "))
    ELSE SessionState(JsonNull, Val("Please enter a food name or barcode to search."))

SearchMethods == {"Food Name Search", "Barcode Scanner"}
SearchTexts == {"", " ", "cola"}

(* A click on the search button *)
SearchButton(search_method, text, response, raised) ==
    /\ response \in (IF search_method = "Food Name Search"
                      THEN NameResponses ELSE BarcodeResponses)
    /\ last' = Call("search_button", DefaultUser, today,
                    [search_method |-> search_method, text |-> text,
                     response |-> response, raised |-> raised],
                    TRUE,
                    search_button_handler(search_method, text,
                        IF search_method = "Food Name Search"
                        THEN search_food_by_name_result(response).records
                        ELSE search_food_by_barcode_result(response).records,
                        raised))
    /\ UNCHANGED <<sessions, food_items, daily_tracker, favorite_foods, sugar_insights,
                   today, backend, serial>>

NextSearchButton ==
    \E search_method \in SearchMethods, text \in SearchTexts,
       response \in NameResponses \cup BarcodeResponses, raised \in BOOLEAN :
        SearchButton(search_method, text, response, raised)

SpecSearchButton == Init /\ [][NextSearchButton]_vars

----------------------------------------------------------------------------
(* The unit and classification utilities of utils.py. A sugar content is   *)
(* in hundredths of g (5.01 g is 501), a portion size in g, so the sugar   *)
(* of a portion, sugar_content / 100 * portion_size, is their product in   *)
(* 1/10000 g and 5.0 g of it is 50000. On the inputs examined the binary   *)
(* floating point product compares with 5.0, 10.0 and 20.0 as the exact    *)
(* product does.                                                           *)

MaxSugarCenti == 2100

SugarContents == -100..MaxSugarCenti
PortionSizes == {50, 100, 250}

(* The thresholds with exclusive upper bounds *)
get_health_warning_color_exclusive(sugar_content) ==
    IF sugar_content < 500
    THEN <<"LOW SUGAR",
           "This food is low in sugar and is a good choice for a healthy diet.",
           "green">>
    ELSE IF sugar_content < 1500
    THEN <<"MODERATE SUGAR",
           "This food contains moderate amounts of sugar. Consume in moderation.",
           "yellow">>
    ELSE <<"HIGH SUGAR",
           "This food is high in sugar. Consider limiting your consumption.",
           "red">>

(* get_health_warning_color(sugar_content): (level, text, color) *)
get_health_warning_color(sugar_content) ==
    IF sugar_content <= 500
    THEN <<"LOW SUGAR",
           "This food is low in sugar and is a good choice for a healthy diet.",
           "green">>
    ELSE IF sugar_content <= 1500
    THEN <<"MODERATE SUGAR",
           "This food contains moderate amounts of sugar. Consume in moderation.",
           "yellow">>
    ELSE <<"HIGH SUGAR",
           "This food is high in sugar. Consider limiting your consumption.",
           "red">>

(* sugar_grams / 4.0, as a fraction *)
sugar_to_teaspoons(sugar_grams) == [num |-> sugar_grams, den |-> 4]

(* What a call ends in: a returned value, or an exception that leaves the  *)
(* function                                                                *)
Returned(value) == [raised |-> "none", value |-> value]
Raised(exception) == [raised |-> exception, value |-> <<>>]

(* (sugar_content / daily_limit) * 100, as a fraction, both arguments in   *)
(* the same unit; the division raises ZeroDivisionError for a limit of 0   *)
calculate_daily_sugar_percentage(sugar_content, daily_limit) ==
    IF daily_limit = 0 THEN Raised("ZeroDivisionError")
    ELSE Returned(Percent(sugar_content, daily_limit))

(* The tips with exclusive upper bounds of the bands *)
get_sugar_health_tips_exclusive(sugar_content) ==
    IF sugar_content < 500
    THEN <<"Great choice! This food is naturally low in sugar.",
           "You can enjoy this as part of a balanced diet.",
           "Consider pairing with protein for sustained energy.">>
    ELSE IF sugar_content < 1500
    THEN <<"Moderate sugar content - enjoy in reasonable portions.",
           "Consider the timing of consumption (e.g., before exercise).",
           "Balance with low-sugar foods throughout the day.">>
    ELSE <<"High sugar content - consider limiting portion size.",
           "Try to consume with fiber-rich foods to slow absorption.",
           "Consider this as an occasional treat rather than daily food.",
           "Look for lower-sugar alternatives when possible.">>

(* get_sugar_health_tips(sugar_content): the list of tips *)
get_sugar_health_tips(sugar_content) ==
    IF sugar_content <= 500
    THEN <<"Great choice! This food is naturally low in sugar.",
           "You can enjoy this as part of a balanced diet.",
           "Consider pairing with protein for sustained energy.">>
    ELSE IF sugar_content <= 1500
    THEN <<"Moderate sugar content - enjoy in reasonable portions.",
           "Consider the timing of consumption (e.g., before exercise).",
           "Balance with low-sugar foods throughout the day.">>
    ELSE <<"High sugar content - consider limiting portion size.",
           "Try to consume with fiber-rich foods to slow absorption.",
           "Consider this as an occasional treat rather than daily food.",
           "Look for lower-sugar alternatives when possible.">>

(* The impact level and score of an amount of sugar in 1/10000 g *)
ImpactOf(sugar) ==
    IF sugar <= 50000 THEN [impact_level |-> "Low Impact", impact_score |-> 1]
    ELSE IF sugar <= 100000
    THEN [impact_level |-> "Moderate Impact", impact_score |-> 2]
    ELSE IF sugar <= 200000
    THEN [impact_level |-> "High Impact", impact_score |-> 3]
    ELSE [impact_level |-> "Very High Impact", impact_score |-> 4]

ImpactDict(actual_sugar, impact, portion_size) ==
    [actual_sugar_g        |-> actual_sugar,
     teaspoons             |-> sugar_to_teaspoons(actual_sugar),
     who_daily_percentage  |->
         calculate_daily_sugar_percentage(actual_sugar, 250000).value,
     ada_male_percentage   |->
         calculate_daily_sugar_percentage(actual_sugar, 360000).value,
     ada_female_percentage |->
         calculate_daily_sugar_percentage(actual_sugar, 250000).value,
     impact_level          |-> impact.impact_level,
     impact_score          |-> impact.impact_score,
     portion_size          |-> portion_size]

(* The score taken from the sugar of 100 g, whatever the portion *)
calculate_sugar_impact_score_density(sugar_content, portion_size) ==
    ImpactDict(sugar_content * portion_size, ImpactOf(sugar_content * 100),
               portion_size)

(* calculate_sugar_impact_score(sugar_content, portion_size) *)
calculate_sugar_impact_score(sugar_content, portion_size) ==
    LET actual_sugar == sugar_content * portion_size
    IN  ImpactDict(actual_sugar, ImpactOf(actual_sugar), portion_size)

(* The arguments examined: every sugar content with a portion of 100 g,    *)
(* every half gram of it with the other portions                           *)
UtilsInputs ==
    {[sugar_content |-> sc, portion_size |-> ps] :
        sc \in SugarContents, ps \in {100}}
    \cup {[sugar_content |-> sc, portion_size |-> ps] :
            sc \in {x \in SugarContents : x % 50 = 0}, ps \in PortionSizes}

InitUtils ==
    /\ food_items = {}
    /\ sessions = NoSessions
    /\ daily_tracker = {}
    /\ favorite_foods = {}
    /\ sugar_insights = {}
    /\ today = 1
    /\ backend = "sqlite"
    /\ serial = [tracker |-> 0, favorite |-> 0]
    /\ last \in {Call("utils_input", 0, 0, a, TRUE, <<>>) : a \in UtilsInputs}

(* warning_level, warning_text, warning_color =                            *)
(*     get_health_warning_color(sugar_content)                             *)
WarningColor ==
    /\ last.op = "utils_input"
    /\ last' = Call("get_health_warning_color", 0, 0, last.arg, TRUE,
                    get_health_warning_color(last.arg.sugar_content))
    /\ UNCHANGED <<sessions, food_items, daily_tracker, favorite_foods, sugar_insights,
                   today, backend, serial>>

(* impact_data = calculate_sugar_impact_score(sugar_content, portion_size) *)
ImpactScore ==
    /\ last.op = "utils_input"
    /\ last' = Call("calculate_sugar_impact_score", 0, 0, last.arg, TRUE,
                    calculate_sugar_impact_score(last.arg.sugar_content,
                                                 last.arg.portion_size))
    /\ UNCHANGED <<sessions, food_items, daily_tracker, favorite_foods, sugar_insights,
                   today, backend, serial>>

(* The daily limits a percentage is asked for, in hundredths of g: none,   *)
(* the WHO 25.0 g and the 36.0 g of the impact score                       *)
DailyLimits == {0, 2500, 3600}

(* calculate_daily_sugar_percentage(sugar_content, daily_limit) *)
DailyPercentage ==
    \E daily_limit \in DailyLimits :
        /\ last.op = "utils_input"
        /\ last' = Call("calculate_daily_sugar_percentage", 0, 0,
                        [sugar_content |-> last.arg.sugar_content,
                         daily_limit   |-> daily_limit], TRUE,
                        calculate_daily_sugar_percentage(last.arg.sugar_content,
                                                         daily_limit))
        /\ UNCHANGED <<sessions, food_items, daily_tracker, favorite_foods, sugar_insights,
                       today, backend, serial>>

(* tips = get_sugar_health_tips(sugar_content) *)
HealthTips ==
    /\ last.op = "utils_input"
    /\ last' = Call("get_sugar_health_tips", 0, 0, last.arg, TRUE,
                    get_sugar_health_tips(last.arg.sugar_content))
    /\ UNCHANGED <<sessions, food_items, daily_tracker, favorite_foods, sugar_insights,
                   today, backend, serial>>

SpecUtils ==
    InitUtils /\ [][WarningColor \/ ImpactScore \/ DailyPercentage \/ HealthTips]_vars

----------------------------------------------------------------------------
(* Properties of the tracking store *)

(* C1: after save_daily_insight(date, user) has returned, whatever it      *)
(* returned and also when the date has no entries, every insight row of    *)
(* (user, date) holds the sum, sum and count of the entries now stored.    *)
InsightAgreesAfterRecompute ==
    last.op = "save_daily_insight" =>
        \A r \in InsightsOf(sugar_insights, last.date, last.user) :
            /\ r.total_sugar_g  = SumField(EntriesOf(daily_tracker, last.date, last.user), "sugar_g")
            /\ r.total_calories = SumField(EntriesOf(daily_tracker, last.date, last.user), "calories")
            /\ r.food_count     = Cardinality(EntriesOf(daily_tracker, last.date, last.user))

(* C2: save_daily_insight is idempotent: in the state a call has left, a   *)
(* second call with the same arguments leaves the insight table as it is.  *)
RecomputeIdempotent ==
    last.op = "save_daily_insight" =>
        \A o \in save_daily_insight_outcomes(sugar_insights, daily_tracker,
                                          last.date, last.user) :
            o.insights = sugar_insights

(* C2 witness: a call that found entries and an insight row has returned *)
RecomputeIdempotentWitness ==
    /\ last.op = "save_daily_insight"
    /\ last.ret
    /\ last.arg.existed
    /\ EntriesOf(daily_tracker, last.date, last.user) # {}
    /\ InsightsOf(sugar_insights, last.date, last.user) # {}

OneInsightPerKey ==
    \A r1, r2 \in sugar_insights :
        (r1.user_id = r2.user_id /\ r1.date = r2.date) => r1 = r2

(* C3: the insight table never holds two rows of one (user, date), and a   *)
(* recompute of a key that has a row keeps the rows of the table (their    *)
(* ids) as they are: it updates, it does not insert.                       *)
InsightUpsert ==
    /\ []OneInsightPerKey
    /\ [][(/\ last'.op \in {"save_daily_insight", "track_button"}
           /\ InsightsOf(sugar_insights, last'.date, last'.user) # {})
          => {r.id : r \in sugar_insights'} = {r.id : r \in sugar_insights}]_vars

(* C3 witness: a recompute has updated the row of its key while the table  *)
(* holds the row of another key                                            *)
InsightUpsertWitness ==
    /\ last.op = "save_daily_insight"
    /\ last.ret
    /\ last.arg.existed
    /\ Cardinality(InsightsOf(sugar_insights, last.date, last.user)) = 1
    /\ Cardinality(sugar_insights) = 2

(* C4: with at least one entry save_daily_insight returns true and the     *)
(* insight of the key holds the sums and the count of the entries, with    *)
(* exceeded_limit = (total sugar > 25.0 g), whatever was stored before.    *)
RecomputeStoresTotals ==
    (/\ last.op = "save_daily_insight"
     /\ EntriesOf(daily_tracker, last.date, last.user) # {}) =>
        /\ last.ret = TRUE
        /\ InsightsOf(sugar_insights, last.date, last.user) # {}
        /\ \A r \in InsightsOf(sugar_insights, last.date, last.user) :
            /\ r.total_sugar_g  = SumField(EntriesOf(daily_tracker, last.date, last.user), "sugar_g")
            /\ r.total_calories = SumField(EntriesOf(daily_tracker, last.date, last.user), "calories")
            /\ r.food_count     = Cardinality(EntriesOf(daily_tracker, last.date, last.user))
            /\ r.exceeded_limit = (r.total_sugar_g > 25000)

(* C4 witness: a recompute has replaced a stored insight by the totals of  *)
(* two entries that sum to 25.0 g exactly, not exceeded                    *)
RecomputeStoresTotalsWitness ==
    /\ last.op = "save_daily_insight"
    /\ last.ret
    /\ last.arg.existed
    /\ \E r \in InsightsOf(sugar_insights, last.date, last.user) :
        /\ r.total_sugar_g = 25000
        /\ r.food_count = 2
        /\ r.exceeded_limit = FALSE

(* C5: with no entry for (user, date) save_daily_insight returns false and *)
(* leaves the insight, tracker and favorites tables unchanged.             *)
RecomputeNothingToDo ==
    [][(/\ last'.op = "save_daily_insight"
        /\ EntriesOf(daily_tracker, last'.date, last'.user) = {})
       => /\ last'.ret = FALSE
          /\ sugar_insights' = sugar_insights
          /\ daily_tracker' = daily_tracker
          /\ favorite_foods' = favorite_foods]_vars

(* C5 witness: a recompute has returned false for a key without entries    *)
(* whose insight row is still stored, with favorites in the store          *)
RecomputeNothingToDoWitness ==
    /\ last.op = "save_daily_insight"
    /\ last.ret = FALSE
    /\ EntriesOf(daily_tracker, last.date, last.user) = {}
    /\ InsightsOf(sugar_insights, last.date, last.user) # {}
    /\ favorite_foods # {}

(* C6: a successful add_to_daily_tracker adds exactly one entry, whose     *)
(* sugar is sugar_g/100*portion_g and whose calories are                   *)
(* calories/100*portion_g (10.6 g at 250 g: 26.5 g); when the Track button *)
(* leaves it the only entry of the day, the insight of the day holds its   *)
(* sugar as the total and exceeded_limit = (that sugar > 25.0 g).          *)
TrackAddsScaledEntry ==
    [][(last'.op \in {"add_to_daily_tracker", "track_button"} /\ last'.ret)
       => \E e \in daily_tracker' :
            /\ e \notin daily_tracker
            /\ daily_tracker' = daily_tracker \cup {e}
            /\ e.user_id = last'.user
            /\ e.date = today
            /\ e.food_name = last'.arg.food.name
            /\ e.portion_g = last'.arg.portion_g
            /\ e.sugar_g = last'.arg.food.sugar_g * last'.arg.portion_g
            /\ e.calories = last'.arg.food.calories * last'.arg.portion_g
            /\ (last'.arg.food = CocaCola /\ last'.arg.portion_g = 250)
                  => e.sugar_g = 26500
            /\ (/\ last'.op = "track_button"
                /\ EntriesOf(daily_tracker', today, last'.user) = {e})
                  => /\ InsightsOf(sugar_insights', today, last'.user) # {}
                     /\ \A r \in InsightsOf(sugar_insights', today, last'.user) :
                          /\ r.total_sugar_g = e.sugar_g
                          /\ r.exceeded_limit = (e.sugar_g > 25000)]_vars

(* C6 witness: the Track button has tracked Coca Cola at 250 g as the only *)
(* entry of the day and the insight holds 26.5 g, exceeded                 *)
TrackAddsScaledEntryWitness ==
    /\ last.op = "track_button"
    /\ last.ret
    /\ last.arg.food = CocaCola
    /\ last.arg.portion_g = 250
    /\ Cardinality(EntriesOf(daily_tracker, last.date, last.user)) = 1
    /\ \E e \in EntriesOf(daily_tracker, last.date, last.user) : e.sugar_g = 26500
    /\ \E r \in InsightsOf(sugar_insights, last.date, last.user) :
        r.total_sugar_g = 26500 /\ r.exceeded_limit

OneFavoritePerName ==
    \A f1, f2 \in favorite_foods :
        (f1.user_id = f2.user_id /\ f1.food_name = f2.food_name) => f1 = f2

(* C7: the store never holds two favorites of one (user, food name), and   *)
(* add_to_favorites for a pair already present returns false and leaves    *)
(* the favorites table, the stored row included, as it is.                 *)
FavoritesUnique ==
    /\ []OneFavoritePerName
    /\ [][(/\ last'.op = "add_to_favorites"
           /\ \E f \in favorite_foods :
                f.user_id = last'.user /\ f.food_name = last'.arg.name)
          => /\ last'.ret = FALSE
             /\ favorite_foods' = favorite_foods]_vars

(* C7 witness: add_to_favorites has returned false for a record whose name *)
(* the user has as a favorite with another record, and the other user has  *)
(* a favorite as well                                                      *)
FavoritesUniqueWitness ==
    /\ last.op = "add_to_favorites"
    /\ last.ret = FALSE
    /\ \E f \in favorite_foods :
        /\ f.user_id = last.user
        /\ f.food_name = last.arg.name
        /\ f.food_data # last.arg
    /\ \E f \in favorite_foods : f.user_id # last.user

(* C8: get_weekly_insights(user, n) returns min(n, rows of the user) rows, *)
(* each a stored row of the user, in strictly descending date, and no row  *)
(* of the user left out is more recent than a row returned.                *)
WeeklyInsightsMostRecent ==
    last.op = "get_weekly_insights" =>
        LET data == last.out
            rows == {r \in sugar_insights : r.user_id = last.user}
            k    == Len(data)
        IN  /\ k = Min2(last.arg, Cardinality(rows))
            /\ \A i, j \in 1..k : i < j => data[i].date > data[j].date
            /\ \A i \in 1..k : \E r \in rows : InsightDict(r) = data[i]
            /\ \A r \in rows :
                 (\A i \in 1..k : data[i].date # r.date)
                     => \A i \in 1..k : r.date < data[i].date

(* C8 witness: a user with insights of two days has asked for one row and  *)
(* got the later day                                                       *)
WeeklyInsightsMostRecentWitness ==
    /\ last.op = "get_weekly_insights"
    /\ last.arg = 1
    /\ Len(last.out) = 1
    /\ Cardinality({r \in sugar_insights : r.user_id = last.user}) = 2
    /\ \A r \in sugar_insights : r.date <= last.out[1].date

(* C9: the compliance rate of a trend view is                              *)
(* (returned rows - days exceeded) / returned rows * 100.                  *)
ComplianceOverReturnedRows ==
    last.op \in {"weekly_trends", "monthly_trends"} =>
        last.out.compliance.num * last.out.rows
            = (last.out.rows - last.out.days_exceeded) * 100 * last.out.compliance.den

(* The values the nutrient entries carrying an id bring *)
ValuesOfId(nutrients, id) ==
    {Get(nutrients[i].value, Val(0)) :
        i \in {j \in 1..Len(nutrients) : nutrients[j].nutrientId = Val(id)}}

(* C10: in a record the Provider-A normalizer returns, a field whose       *)
(* identifier some entry of the nutrient list carries holds the value of   *)
(* an entry carrying that identifier, whatever entries match by name.      *)
IdentifierDecidesField ==
    (last.op = "extract_nutrition_data" /\ last.out.ok) =>
        \A id \in {SugarId, EnergyId, CarbsId, ProteinId, FatId, FiberId, SodiumId} :
            ValuesOfId(last.arg.foodNutrients, id) # {}
                => last.out.info[FieldOfId(Val(id))]
                       \in ValuesOfId(last.arg.foodNutrients, id)

(* The entries that reach the name matching for a field: their id is not   *)
(* one the normalizer maps and their name matches the field                *)
NameMatches(nutrients, field) ==
    {i \in 1..Len(nutrients) :
        /\ FieldOfId(Get(nutrients[i].nutrientId, JsonNull)) = "none"
        /\ nutrients[i].nutrientName # JsonNull
        /\ FieldOfName(Get(nutrients[i].nutrientName, Val(""))[2]) = field}

(* C11: in a record the Provider-A normalizer returns, a field whose       *)
(* identifier no entry carries and that entries match by name holds the    *)
(* value of the first such entry in list order, whatever the values (a     *)
(* first match of value 0 included).                                       *)
FirstNameMatchWins ==
    (last.op = "extract_nutrition_data" /\ last.out.ok) =>
        \A field \in NutrientFields :
            LET nutrients == last.arg.foodNutrients
                matches   == NameMatches(nutrients, field)
                first     == CHOOSE i \in matches : \A j \in matches : i <= j
            IN  (/\ \A i \in 1..Len(nutrients) :
                       FieldOfId(Get(nutrients[i].nutrientId, JsonNull)) # field
                 /\ matches # {})
                    => last.out.info[field] = Get(nutrients[first].value, Val(0))

(* C12: every record either normalizer returns holds a number, never null, *)
(* in each of its seven nutrient fields, also when the payload carries a   *)
(* null value for a nutrient.                                              *)
NutrientsNeverNull ==
    (last.op \in {"extract_nutrition_data", "extract_openfoodfacts_data"}
        /\ last.out.ok) =>
        \A field \in NutrientFields :
            /\ last.out.info[field] # JsonNull
            /\ last.out.info[field][1] = "value"

(* C13: every number in a nutrient field of a record either normalizer     *)
(* returns is non-negative, also when the payload carries negative values. *)
NutrientsNonNegative ==
    (last.op \in {"extract_nutrition_data", "extract_openfoodfacts_data"}
        /\ last.out.ok) =>
        \A field \in NutrientFields :
            last.out.info[field][1] = "value" => last.out.info[field][2] >= 0

(* The name member of the payload a normalizer was called with *)
NameMember ==
    IF last.op = "extract_nutrition_data" THEN last.arg.description
    ELSE IF last.arg[1] = "null" THEN Val("") ELSE last.arg[2].product_name

(* The payload with the name member replaced *)
WithName(name) ==
    IF last.op = "extract_nutrition_data"
    THEN extract_nutrition_data([last.arg EXCEPT !.description = name])
    ELSE extract_openfoodfacts_data(Val([last.arg[2] EXCEPT !.product_name = name]))

(* C15: a payload whose name member is missing or null is normalized       *)
(* whenever the same payload with a name is, and the record's name is the  *)
(* placeholder of its provider.                                            *)
MissingNameGetsPlaceholder ==
    (/\ last.op \in {"extract_nutrition_data", "extract_openfoodfacts_data"}
     /\ NameMember \in {Absent, JsonNull}) =>
        /\ last.out.ok = WithName(Val("Cola")).ok
        /\ last.out.ok =>
              last.out.name = IF last.op = "extract_nutrition_data"
                              THEN Val("Unknown Food")
                              ELSE Val("Unknown Product")

(* C14: a record the Provider-B normalizer returns holds 1000 times        *)
(* sodium_100g as sodium_mg (0 for an absent or null key, 400 for 0.4) and *)
(* the values of the six other keys, unscaled, in the other fields.        *)
ProviderBDirectLookup ==
    (last.op = "extract_openfoodfacts_data" /\ last.out.ok) =>
        LET nutriments == IF last.arg[2].nutriments = Absent
                          THEN [k \in NutrimentKeys |-> Absent]
                          ELSE last.arg[2].nutriments[2]
            number(key) == IF nutriments[key] \in {Absent, JsonNull}
                           THEN 0 ELSE nutriments[key][2]
            info == last.out.info
        IN  /\ info.sodium_mg = Val(1000 * number("sodium_100g"))
            /\ nutriments["sodium_100g"] = Val(40) => info.sodium_mg = Val(40000)
            /\ info.sugar_g   = Val(number("sugars_100g"))
            /\ info.calories  = Val(number("energy-kcal_100g"))
            /\ info.carbs_g   = Val(number("carbohydrates_100g"))
            /\ info.protein_g = Val(number("proteins_100g"))
            /\ info.fat_g     = Val(number("fat_100g"))
            /\ info.fiber_g   = Val(number("fiber_100g"))

(* C14 witness: a product with sodium 0.4 g, a null sugars key and no      *)
(* fiber key has been normalized to sodium 400 mg, sugar 0, fiber 0        *)
ProviderBDirectLookupWitness ==
    /\ last.op = "extract_openfoodfacts_data"
    /\ last.out.ok
    /\ last.arg[2].nutriments # Absent
    /\ last.arg[2].nutriments[2]["sodium_100g"] = Val(40)
    /\ last.arg[2].nutriments[2]["sugars_100g"] = JsonNull
    /\ last.arg[2].nutriments[2]["fiber_100g"] = Absent
    /\ last.arg[2].nutriments[2]["fat_100g"] = Val(40)
    /\ last.out.info.sodium_mg = Val(40000)
    /\ last.out.info.sugar_g = Val(0)
    /\ last.out.info.fiber_g = Val(0)
    /\ last.out.info.fat_g = Val(40)

(* A call of the provider did not bring a 200 response *)
ProviderFailure(response) ==
    response.kind # "response" \/ response.status_code # 200

(* C16: for a 200 response with a list of foods, search_food_by_name       *)
(* returns the records of the foods among the first 3 that normalize, in   *)
(* their order in the list: at most 3 records, and a food that fails to    *)
(* normalize removes itself only.                                          *)
SearchByNamePerItem ==
    (/\ last.op = "search_food_by_name"
     /\ ~ProviderFailure(last.arg)
     /\ last.arg.json[2].foods \notin {Absent, JsonNull}) =>
        LET foods      == last.arg.json[2].foods[2]
            considered == {i \in 1..Len(foods) : i <= 3}
            normalized == {i \in considered : extract_food(foods[i]).ok}
            nth(k)     == CHOOSE i \in normalized :
                              Cardinality({j \in normalized : j < i}) = k - 1
            records    == last.out.records
        IN  /\ Len(records) <= 3
            /\ Len(records) = Cardinality(normalized)
            /\ \A k \in 1..Len(records) : records[k] = extract_food(foods[nth(k)])

(* C16 witness: of four foods the second is null, the others normalize,    *)
(* and the result is the first and the third                               *)
SearchByNamePerItemWitness ==
    /\ last.op = "search_food_by_name"
    /\ ~ProviderFailure(last.arg)
    /\ last.arg.json[2].foods = Val(<<FoodCola, JsonNull, FoodApple, FoodCola>>)
    /\ Len(last.out.records) = 2
    /\ last.out.records[1].name = Val("Coca Cola")
    /\ last.out.records[2].name = Val("Apple")

(* The failures the client tells apart *)
FailureClass(response) ==
    IF response.kind = "response" THEN "bad status" ELSE response.kind

(* C17: a search whose provider call times out, cannot connect, answers    *)
(* with a status other than 200 or raises anything else returns the empty  *)
(* list and one message, the messages of a timeout, a connection error and *)
(* a bad status differ from each other, and the four tables of the store   *)
(* are left as they were.                                                  *)
ProviderFailureReported ==
    [][(/\ last'.op \in {"search_food_by_name", "search_food_by_barcode"}
        /\ ProviderFailure(last'.arg))
       => /\ last'.out.records = <<>>
          /\ Len(last'.out.errors) = 1
          /\ \A other \in (IF last'.op = "search_food_by_name"
                            THEN NameResponses ELSE BarcodeResponses) :
                (/\ ProviderFailure(other)
                 /\ {FailureClass(other), FailureClass(last'.arg)}
                        \subseteq {"Timeout", "ConnectionError", "bad status"}
                 /\ FailureClass(other) # FailureClass(last'.arg))
                => (IF last'.op = "search_food_by_name"
                    THEN search_food_by_name_result(other)
                    ELSE search_food_by_barcode_result(other)).errors
                        # last'.out.errors
          /\ food_items' = food_items
          /\ daily_tracker' = daily_tracker
          /\ favorite_foods' = favorite_foods
          /\ sugar_insights' = sugar_insights]_vars

(* C17 witness: a search by name has timed out with entries and an insight *)
(* in the store                                                            *)
ProviderFailureReportedWitness ==
    /\ last.op = "search_food_by_name"
    /\ last.arg.kind = "Timeout"
    /\ last.out = Result(<<>>, <<Message("Request timed out. Please try again.", 0)>>)
    /\ food_items # {}
    /\ daily_tracker # {}
    /\ sugar_insights # {}

(* C18: search_food_by_barcode returns at most one record; for a 200       *)
(* response whose status is not 1 or that has no product it returns the    *)
(* empty list and reports no error, while a provider failure always        *)
(* reports one.                                                            *)
BarcodeNotFoundIsNormal ==
    last.op = "search_food_by_barcode" =>
        /\ Len(last.out.records) <= 1
        /\ (/\ ~ProviderFailure(last.arg)
            /\ \/ Get(last.arg.json[2].status, JsonNull) # Val(1)
               \/ last.arg.json[2].product = Absent)
              => last.out = Result(<<>>, <<>>)
        /\ ProviderFailure(last.arg) => last.out.errors # <<>>

(* C18 witness: the provider has answered 200 with status 0 and no product *)
BarcodeNotFoundIsNormalWitness ==
    /\ last.op = "search_food_by_barcode"
    /\ ~ProviderFailure(last.arg)
    /\ last.arg.json[2].status = Val(0)
    /\ last.arg.json[2].product = Absent
    /\ last.out.records = <<>>
    /\ last.out.errors = <<>>

(* C19: get_health_warning_color gives LOW up to 5.0 inclusive, MODERATE   *)
(* above 5.0 up to 15.0 inclusive and HIGH above 15.0 (5.0 LOW, 5.01       *)
(* MODERATE, 15.0 MODERATE, 15.01 HIGH), and a level always comes with the *)
(* same message and colour.                                                *)
ClassifyThreeLevels ==
    last.op = "get_health_warning_color" =>
        LET x == last.arg.sugar_content
            level == last.out[1]
        IN  /\ level \in {"LOW SUGAR", "MODERATE SUGAR", "HIGH SUGAR"}
            /\ (level = "LOW SUGAR") = (x <= 500)
            /\ (level = "MODERATE SUGAR") = (500 < x /\ x <= 1500)
            /\ (level = "HIGH SUGAR") = (x > 1500)
            /\ x = 500 => level = "LOW SUGAR"
            /\ x = 501 => level = "MODERATE SUGAR"
            /\ x = 1500 => level = "MODERATE SUGAR"
            /\ x = 1501 => level = "HIGH SUGAR"
            /\ \A other \in SugarContents :
                  get_health_warning_color(other)[1] = level
                      => get_health_warning_color(other) = last.out

(* C19 witness: 15.0 g has been classified MODERATE, yellow *)
ClassifyThreeLevelsWitness ==
    /\ last.op = "get_health_warning_color"
    /\ last.arg.sugar_content = 1500
    /\ last.out[1] = "MODERATE SUGAR"
    /\ last.out[3] = "yellow"

(* C20: calculate_sugar_impact_score classifies the sugar of the portion,  *)
(* sugar_content / 100 * portion_size: up to 5 g score 1 'Low Impact', up  *)
(* to 10 g 2 'Moderate Impact', up to 20 g 3 'High Impact', above 4 'Very  *)
(* High Impact'; the score is in 1..4 and does not decrease when the sugar *)
(* of the portion grows; 10 g per 100 g at 100 g gives 10 g, 'Moderate     *)
(* Impact', 2.                                                             *)
ImpactScoreBands ==
    last.op = "calculate_sugar_impact_score" =>
        LET actual == last.arg.sugar_content * last.arg.portion_size
            score  == last.out.impact_score
            level  == last.out.impact_level
        IN  /\ last.out.actual_sugar_g = actual
            /\ score \in 1..4
            /\ (score = 1) = (actual <= 50000)
            /\ (score = 2) = (50000 < actual /\ actual <= 100000)
            /\ (score = 3) = (100000 < actual /\ actual <= 200000)
            /\ (score = 4) = (actual > 200000)
            /\ (score = 1) = (level = "Low Impact")
            /\ (score = 2) = (level = "Moderate Impact")
            /\ (score = 3) = (level = "High Impact")
            /\ (score = 4) = (level = "Very High Impact")
            /\ (last.arg.sugar_content = 1000 /\ last.arg.portion_size = 100)
                  => actual = 100000 /\ level = "Moderate Impact" /\ score = 2
            /\ \A other \in UtilsInputs :
                  other.sugar_content * other.portion_size <= actual
                      => calculate_sugar_impact_score(other.sugar_content,
                                                      other.portion_size).impact_score
                            <= score

(* C20 witness: 10 g per 100 g, which is 10 g at 100 g, at a portion of    *)
(* 250 g: 25 g of sugar, 'Very High Impact', 4                             *)
ImpactScoreBandsWitness ==
    /\ last.op = "calculate_sugar_impact_score"
    /\ last.arg.sugar_content = 1000
    /\ last.arg.portion_size = 250
    /\ last.out.actual_sugar_g = 250000
    /\ last.out.impact_level = "Very High Impact"
    /\ last.out.impact_score = 4

(* C21: calculate_daily_sugar_percentage returns amount / limit * 100 for  *)
(* a limit other than 0, and a call with a limit of 0 does not end in the  *)
(* division-by-zero exception.                                             *)
PercentGuardsZeroLimit ==
    last.op = "calculate_daily_sugar_percentage" =>
        /\ last.arg.daily_limit # 0 =>
              /\ last.out.raised = "none"
              /\ last.out.value.num * last.arg.daily_limit
                    = last.arg.sugar_content * 100 * last.out.value.den
        /\ last.arg.daily_limit = 0 => last.out.raised # "ZeroDivisionError"

(* C30: get_sugar_health_tips returns the 3 tips of the low band up to 5.0 *)
(* inclusive, the 3 tips of the moderate band above 5.0 up to 15.0         *)
(* inclusive and the 4 tips of the high band above 15.0, each band always  *)
(* the same list, and the band is the level get_health_warning_color       *)
(* gives the same value.                                                   *)
TipsFollowClassify ==
    last.op = "get_sugar_health_tips" =>
        LET x     == last.arg.sugar_content
            tips  == last.out
            level == get_health_warning_color(x)[1]
        IN  /\ x <= 500 => Len(tips) = 3
            /\ (500 < x /\ x <= 1500) => Len(tips) = 3
            /\ x > 1500 => Len(tips) = 4
            /\ (tips[1] = "Great choice! This food is naturally low in sugar.")
                  = (level = "LOW SUGAR")
            /\ (tips[1] = "Moderate sugar content - enjoy in reasonable portions.")
                  = (level = "MODERATE SUGAR")
            /\ (tips[1] = "High sugar content - consider limiting portion size.")
                  = (level = "HIGH SUGAR")
            /\ \A other \in SugarContents :
                  get_health_warning_color(other)[1] = level
                      => get_sugar_health_tips(other) = tips

(* C30 witness: 15.0 g has got the three tips of the moderate band *)
TipsFollowClassifyWitness ==
    /\ last.op = "get_sugar_health_tips"
    /\ last.arg.sugar_content = 1500
    /\ Len(last.out) = 3
    /\ last.out[1] = "Moderate sugar content - enjoy in reasonable portions."

(* C22: food_items holds one row per (name, external id), the row of a     *)
(* record without an external id included: saving a record again adds no   *)
(* row.                                                                    *)
FoodItemsDeduplicated ==
    \A f1, f2 \in food_items :
        (f1.name = f2.name /\ f1.external_id = f2.external_id) => f1 = f2

(* C23: add_to_daily_tracker, the Track button and add_to_favorites leave  *)
(* their table as it was when they return false; when they return true     *)
(* the table has exactly one new row, and its food_item_id is the id of a  *)
(* row of food_items.                                                      *)
EntryNeverHalfWritten ==
    [][(last'.op \in {"add_to_daily_tracker", "track_button", "add_to_favorites"}) =>
        LET before == IF last'.op = "add_to_favorites"
                      THEN favorite_foods ELSE daily_tracker
            after  == IF last'.op = "add_to_favorites"
                      THEN favorite_foods' ELSE daily_tracker'
        IN  /\ ~last'.ret => after = before
            /\ last'.ret =>
                  \E e \in after :
                      /\ e \notin before
                      /\ after = before \cup {e}
                      /\ e.food_item_id # <<>>
                      /\ \E f \in food_items' : <<f.id>> = e.food_item_id]_vars

(* The user an operation is called for: its user_id argument, and for the  *)
(* deletes by id, which have none, the one user of the application         *)
CallerOf(call) ==
    IF call.op \in {"remove_from_daily_tracker", "remove_from_favorites"}
    THEN DefaultUser ELSE call.user

(* C24: an operation of the store called for a user leaves the tracker     *)
(* entries, favorites and insights of every other user as they were.       *)
OperationsScopedByUser ==
    [][(last'.op \in {"add_to_daily_tracker", "remove_from_daily_tracker",
                      "clear_daily_tracker", "save_daily_insight",
                      "get_weekly_insights", "track_button",
                      "add_to_favorites", "remove_from_favorites",
                      "clear_favorites"}) =>
        \A v \in Users \ {CallerOf(last')} :
            /\ {e \in daily_tracker' : e.user_id = v}
                  = {e \in daily_tracker : e.user_id = v}
            /\ {f \in favorite_foods' : f.user_id = v}
                  = {f \in favorite_foods : f.user_id = v}
            /\ {r \in sugar_insights' : r.user_id = v}
                  = {r \in sugar_insights : r.user_id = v}]_vars

(* C25: a tracker entry is a snapshot: no step of the store changes a row  *)
(* of daily_tracker that it keeps; rows are added or deleted only.         *)
EntriesNeverUpdated ==
    [][\A e \in daily_tracker : \A e2 \in daily_tracker' :
          e2.id = e.id =>
              /\ e2.food_name = e.food_name
              /\ e2.portion_g = e.portion_g
              /\ e2.sugar_g = e.sugar_g
              /\ e2.calories = e.calories
              /\ e2.date = e.date
              /\ e2 = e]_vars

(* C25 witness: the changed record of a food has been tracked while an     *)
(* entry of the earlier record, a favorite and an insight are stored: the  *)
(* two entries refer to one food row and differ in sugar                   *)
EntriesNeverUpdatedWitness ==
    /\ last.op = "add_to_daily_tracker"
    /\ last.arg.food = AppleChanged
    /\ favorite_foods # {}
    /\ sugar_insights # {}
    /\ \E e1, e2 \in daily_tracker :
          /\ e1.food_name = e2.food_name
          /\ e1.food_item_id = e2.food_item_id
          /\ e1.sugar_g = 12500
          /\ e2.sugar_g = 15000

(* C29: clear_daily_tracker(date, user_id) returns true, deletes the       *)
(* entries of that user and date and no other, and leaves favorite_foods,  *)
(* food_items and sugar_insights as they were.                             *)
ClearDeletesExactlyTheKey ==
    [][last'.op = "clear_daily_tracker" =>
          /\ last'.ret = TRUE
          /\ daily_tracker' =
                {e \in daily_tracker :
                    ~(e.user_id = last'.user /\ e.date = last'.date)}
          /\ favorite_foods' = favorite_foods
          /\ food_items' = food_items
          /\ sugar_insights' = sugar_insights]_vars

(* C29 witness: a clear has left the key without entries while its insight *)
(* row, an entry of another key and a favorite are stored                  *)
ClearDeletesExactlyTheKeyWitness ==
    /\ last.op = "clear_daily_tracker"
    /\ EntriesOf(daily_tracker, last.date, last.user) = {}
    /\ InsightsOf(sugar_insights, last.date, last.user) # {}
    /\ \E e \in daily_tracker : e.date = last.date /\ e.user_id # last.user
    /\ favorite_foods # {}
    /\ food_items # {}

(* C26: after a click on the search button, whatever the search method,    *)
(* the text typed and the provider's answer, either search_results is a    *)
(* non-empty list and error_message is None, or search_results is None and *)
(* error_message is a non-empty text.                                      *)
SearchOutcomeExplained ==
    last.op = "search_button" =>
        LET s == last.out
        IN  \/ /\ s.search_results[1] = "value"
               /\ Len(s.search_results[2]) > 0
               /\ s.error_message[1] = "null"
            \/ /\ s.search_results[1] = "null"
               /\ s.error_message[1] = "value"
               /\ s.error_message[2] # ""

(* C26 witness: a name search that the provider answered with status 500   *)
(* has left no results and a reason                                        *)
SearchOutcomeExplainedWitness ==
    /\ last.op = "search_button"
    /\ last.arg.search_method = "Food Name Search"
    /\ last.arg.text = "cola"
    /\ ~last.arg.raised
    /\ last.arg.response.status_code = 500
    /\ last.out.search_results[1] = "null"
    /\ last.out.error_message = Val("No results found for ")

(* C27: after a button of the application that changes the tracker (Track, *)
(* the remove button of an entry, Clear All of the selected date) has      *)
(* completed, every insight row stored for the user and date affected      *)
(* holds the sums, the count and the exceeded flag of the entries now      *)
(* stored for them.                                                        *)
InsightFollowsTrackerButtons ==
    last.op \in {"track_button", "remove_button", "clear_all_button"} =>
        \A r \in InsightsOf(sugar_insights, last.date, last.user) :
            LET t == Totals(EntriesOf(daily_tracker, last.date, last.user))
            IN  /\ r.total_sugar_g  = t.total_sugar_g
                /\ r.total_calories = t.total_calories
                /\ r.food_count     = t.food_count
                /\ r.exceeded_limit = t.exceeded_limit

(* C28: when the save_daily_insight calls of two sessions interleave at    *)
(* their reads and commits, the insight table holds, once no call is in    *)
(* progress, at most one row for a user and date, and exactly one for a    *)
(* user and date a call has written.                                       *)
ConcurrentUpsertOneRow ==
    (\A s \in Sessions : sessions[s].pc = "idle") =>
        /\ \A d \in Dates, u \in Users :
              Cardinality(InsightsOf(sugar_insights, d, u)) <= 1
        /\ (last.op = "save_daily_insight" /\ last.ret) =>
              Cardinality(InsightsOf(sugar_insights, last.date, last.user)) = 1

====
